---- MODULE Spec2Model ----
(***************************************************************************)
(* FlattenLayer (src/cnn/FlattenLayer.h): one layer instance and the       *)
(* calls a client can make on it.  A tensor is a sequence of channels,     *)
(* each a sequence of rows, each a sequence of values (std::vector of      *)
(* std::vector of std::vector<float>); nothing forces the rows or the      *)
(* channels of a tensor to have equal lengths.  Indices are 1-based here   *)
(* and 0-based in the source.                                              *)
(***************************************************************************)
EXTENDS Integers, Sequences, FiniteSets, TLC

\* Largest channel count, height and width of the rectangular tensors tried.
MaxC == 2
MaxH == 2
MaxW == 2

VARIABLES
    originalChannels_,  \* FlattenLayer::originalChannels_
    originalHeight_,    \* FlattenLayer::originalHeight_
    originalWidth_,     \* FlattenLayer::originalWidth_
    call,               \* the most recent call: operation and arguments
    ret,                \* how that call ended: exception, crash or return value
    lastInput,          \* history: argument of the most recent Forward that returned
    lastOutput,         \* history: what that Forward returned
    pairing             \* history: Backward calls that returned since that Forward

vars == <<originalChannels_, originalHeight_, originalWidth_, call, ret,
          lastInput, lastOutput, pairing>>

shape == <<originalChannels_, originalHeight_, originalWidth_>>

----------------------------------------------------------------------------
(* Tensors handed to the layer.                                            *)

\* Learning rates and regularization factors tried; no operation reads them.
Rates == {0, 1}

\* A value that names its own position, so that any misplaced element shows.
Cell(c, h, w) == 100 * c + 10 * h + w

RectTensor(C, H, W) == [c \in 1..C |-> [h \in 1..H |-> [w \in 1..W |-> Cell(c, h, w)]]]

\* The 2x2x3 tensor holding 0..11.
ExampleTensor == << << <<0, 1, 2>>, <<3, 4, 5>> >>, << <<6, 7, 8>>, <<9, 10, 11>> >> >>

RectTensors ==
    {RectTensor(C, H, W) : C \in 1..MaxC, H \in 1..MaxH, W \in 1..MaxW} \cup {ExampleTensor}

\* Zero channels; a first channel with zero rows; a first row with zero columns.
EmptyTensors ==
    { << >>,
      << << >> >>,
      << << >>, << <<1, 2>> >> >>,
      << << << >> >> >>,
      << << << >>, <<1, 2>> >> >> }

\* Tensors that are not rectangular, with a non-empty first row of a non-empty
\* first channel.
RaggedTensors ==
    { << << <<1, 2>>, <<3, 4>> >>, << <<5, 6>> >> >>,                          \* later channel, fewer rows
      << << <<1, 2>>, <<3, 4>> >>, << <<5, 6>>, <<7, 8>>, <<9, 10>> >> >>,     \* later channel, more rows
      << << <<1, 2>>, <<3, 4>> >>, << >> >>,                                   \* later channel, no rows
      << << <<1, 2>>, <<3>> >> >>,                                             \* later row, shorter
      << << <<1, 2>>, <<3, 4, 5>> >> >>,                                       \* later row, longer
      << << <<1>> >>, << <<2, 3>> >> >>,                                       \* row of a later channel, longer
      << << <<1, 2, 3>>, <<4>> >>, << <<5, 6>>, <<7, 8>> >> >> }               \* rows of three lengths

RECURSIVE Ravel(_, _, _)
\* The values of tensor t from row h of channel c on, in reading order.
Ravel(t, c, h) ==
    IF c > Len(t) THEN << >>
    ELSE IF h > Len(t[c]) THEN Ravel(t, c + 1, 1)
    ELSE t[c][h] \o Ravel(t, c, h + 1)

\* The rectangular tensors again, as one row of one channel.
FlatTensors == { << << Ravel(t, 1, 1) >> >> : t \in RectTensors }

ForwardInputs == RectTensors \cup EmptyTensors \cup RaggedTensors

Gradients == ForwardInputs \cup FlatTensors

\* What an out-of-bounds read may yield when it does not stop the process.
GarbageValues == {-1, -2}

----------------------------------------------------------------------------
(* Results of a call.                                                      *)

Returned(tensor) == [status |-> "ok", tensor |-> tensor, weights |-> << >>, scalar |-> 0]

Thrown(exception) == [status |-> exception, tensor |-> << >>, weights |-> << >>, scalar |-> 0]

\* Undefined behaviour that ends the process.
Crashed == [status |-> "crash", tensor |-> << >>, weights |-> << >>, scalar |-> 0]

Alive == ret.status # "crash"

----------------------------------------------------------------------------
(* FlattenLayer::Forward                                                   *)

\* Variant: the width of the first row is not looked at.
InputEmptyNoWidth(input) ==
    Len(input) = 0 \/ Len(input[1]) = 0

InputEmpty(input) ==
    Len(input) = 0 \/ Len(input[1]) = 0 \/ Len(input[1][1]) = 0

\* channels, height, width
InputShape(input) == <<Len(input), Len(input[1]), Len(input[1][1])>>

\* Variant: height and width stored in each other's place.
StoredShapeSwapped(input) ==
    <<InputShape(input)[1], InputShape(input)[3], InputShape(input)[2]>>

StoredShape(input) == InputShape(input)

InBounds(input, c, h, w) ==
    c <= Len(input) /\ h <= Len(input[c]) /\ w <= Len(input[c][h])

\* Some input[c][h][w] of the loop lies outside the vectors of the input.
ReadsOutside(input) ==
    LET s == InputShape(input)
    IN  \E c \in 1..s[1], h \in 1..s[2], w \in 1..s[3] : ~InBounds(input, c, h, w)

ReadInput(input, garbage, c, h, w) ==
    IF InBounds(input, c, h, w) THEN input[c][h][w] ELSE garbage

ZeroRow(n) == [i \in 1..n |-> 0]

RECURSIVE ForwardLoopInterchanged(_, _, _, _, _, _, _)
\* Variant: the loops over height and width interchanged.
ForwardLoopInterchanged(input, garbage, output, index, c, h, w) ==
    LET s == InputShape(input)
    IN  IF c > s[1] THEN output
        ELSE IF w > s[3] THEN ForwardLoopInterchanged(input, garbage, output, index, c + 1, 1, 1)
        ELSE IF h > s[2] THEN ForwardLoopInterchanged(input, garbage, output, index, c, 1, w + 1)
        ELSE ForwardLoopInterchanged(input, garbage,
                         [output EXCEPT ![1][1][index + 1] = ReadInput(input, garbage, c, h, w)],
                         index + 1, c, h + 1, w)

RECURSIVE ForwardLoop(_, _, _, _, _, _, _)
\* The three nested loops, entered at (c, h, w) with index values written.
ForwardLoop(input, garbage, output, index, c, h, w) ==
    LET s == InputShape(input)
    IN  IF c > s[1] THEN output
        ELSE IF h > s[2] THEN ForwardLoop(input, garbage, output, index, c + 1, 1, 1)
        ELSE IF w > s[3] THEN ForwardLoop(input, garbage, output, index, c, h + 1, 1)
        ELSE ForwardLoop(input, garbage,
                         [output EXCEPT ![1][1][index + 1] = ReadInput(input, garbage, c, h, w)],
                         index + 1, c, h, w + 1)

ForwardOutput(input, garbage) ==
    LET s == InputShape(input)
        flattenedSize == s[1] * s[2] * s[3]
    IN  ForwardLoop(input, garbage, << << ZeroRow(flattenedSize) >> >>, 0, 1, 1, 1)

Forward(input) ==
    /\ Alive
    /\ call' = [op |-> "Forward", tensor |-> input, rate |-> 0]
    /\ IF InputEmpty(input)
       THEN /\ ret' = Thrown("invalid_argument")
            /\ UNCHANGED shape
       ELSE /\ originalChannels_' = StoredShape(input)[1]
            /\ originalHeight_' = StoredShape(input)[2]
            /\ originalWidth_' = StoredShape(input)[3]
            /\ IF ReadsOutside(input)
               THEN \/ ret' = Crashed
                    \/ \E garbage \in GarbageValues :
                          ret' = Returned(ForwardOutput(input, garbage))
               ELSE ret' = Returned(ForwardOutput(input, 0))
    /\ IF ret'.status = "ok"
       THEN /\ lastInput' = input
            /\ lastOutput' = ret'.tensor
            /\ pairing' = "ForwardCompleted"
       ELSE UNCHANGED <<lastInput, lastOutput, pairing>>

----------------------------------------------------------------------------
(* FlattenLayer::Backward                                                  *)

\* Variant: the guard is missing.
NoStoredShapeUnchecked == FALSE

NoStoredShape ==
    originalChannels_ = 0 \/ originalHeight_ = 0 \/ originalWidth_ = 0

RECURSIVE GradientLoop(_, _, _, _)
\* The range-for over channels and rows, entered at row h of channel c.
GradientLoop(upstreamGradient, flatGradients, c, h) ==
    IF c > Len(upstreamGradient) THEN flatGradients
    ELSE IF h > Len(upstreamGradient[c])
         THEN GradientLoop(upstreamGradient, flatGradients, c + 1, 1)
    ELSE GradientLoop(upstreamGradient, flatGradients \o upstreamGradient[c][h], c, h + 1)

\* Variant: only the first row of the first channel is taken.
FlatGradientsFirstRow(upstreamGradient) ==
    IF Len(upstreamGradient) >= 1 /\ Len(upstreamGradient[1]) >= 1
    THEN upstreamGradient[1][1]
    ELSE << >>

FlatGradients(upstreamGradient) ==
    IF Len(upstreamGradient) = 1 /\ Len(upstreamGradient[1]) = 1
    THEN upstreamGradient[1][1]
    ELSE GradientLoop(upstreamGradient, << >>, 1, 1)

expectedSize == originalChannels_ * originalHeight_ * originalWidth_

\* Variant: only a gradient that is too short is refused.
SizeMismatchShort(flatGradients) == Len(flatGradients) < expectedSize

SizeMismatch(flatGradients) == Len(flatGradients) # expectedSize

RECURSIVE BackwardLoopInterchanged(_, _, _, _, _, _)
\* Variant: the loops over height and width interchanged.
BackwardLoopInterchanged(flatGradients, output, index, c, h, w) ==
    IF c > originalChannels_ THEN output
    ELSE IF w > originalWidth_
         THEN BackwardLoopInterchanged(flatGradients, output, index, c + 1, 1, 1)
    ELSE IF h > originalHeight_
         THEN BackwardLoopInterchanged(flatGradients, output, index, c, 1, w + 1)
    ELSE BackwardLoopInterchanged(flatGradients,
                      [output EXCEPT ![c][h][w] = flatGradients[index + 1]],
                      index + 1, c, h + 1, w)

RECURSIVE BackwardLoop(_, _, _, _, _, _)
\* The three nested loops, entered at (c, h, w) with index values consumed.
BackwardLoop(flatGradients, output, index, c, h, w) ==
    IF c > originalChannels_ THEN output
    ELSE IF h > originalHeight_ THEN BackwardLoop(flatGradients, output, index, c + 1, 1, 1)
    ELSE IF w > originalWidth_ THEN BackwardLoop(flatGradients, output, index, c, h + 1, 1)
    ELSE BackwardLoop(flatGradients,
                      [output EXCEPT ![c][h][w] = flatGradients[index + 1]],
                      index + 1, c, h, w + 1)

ZeroTensor ==
    [c \in 1..originalChannels_ |-> [h \in 1..originalHeight_ |-> ZeroRow(originalWidth_)]]

\* How Backward ends on this gradient in the current state.
BackwardResult(upstreamGradient) ==
    IF NoStoredShape THEN Thrown("runtime_error")
    ELSE IF SizeMismatch(FlatGradients(upstreamGradient)) THEN Thrown("invalid_argument")
    ELSE Returned(BackwardLoop(FlatGradients(upstreamGradient), ZeroTensor, 0, 1, 1, 1))

\* Variant: a Backward that returns discards the stored shape.
BackwardDiscarding(upstreamGradient, learningRate) ==
    /\ Alive
    /\ call' = [op |-> "Backward", tensor |-> upstreamGradient, rate |-> learningRate]
    /\ ret' = BackwardResult(upstreamGradient)
    /\ IF ret'.status = "ok"
       THEN originalChannels_' = 0 /\ originalHeight_' = 0 /\ originalWidth_' = 0
       ELSE UNCHANGED shape
    /\ pairing' = IF ret'.status # "ok" THEN pairing
                  ELSE IF pairing = "ForwardCompleted" THEN "Paired"
                  ELSE "Repeated"
    /\ UNCHANGED <<lastInput, lastOutput>>

Backward(upstreamGradient, learningRate) ==
    /\ Alive
    /\ call' = [op |-> "Backward", tensor |-> upstreamGradient, rate |-> learningRate]
    /\ ret' = BackwardResult(upstreamGradient)
    /\ UNCHANGED shape
    /\ pairing' = IF ret'.status # "ok" THEN pairing
                  ELSE IF pairing = "ForwardCompleted" THEN "Paired"
                  ELSE "Repeated"
    /\ UNCHANGED <<lastInput, lastOutput>>

----------------------------------------------------------------------------
(* The parameter operations.                                               *)

\* Variant: the update resets the layer.
UpdateWeightsResetting(learningRate) ==
    /\ Alive
    /\ call' = [op |-> "UpdateWeights", tensor |-> << >>, rate |-> learningRate]
    /\ ret' = Returned(<< >>)
    /\ originalChannels_' = 0 /\ originalHeight_' = 0 /\ originalWidth_' = 0
    /\ UNCHANGED <<lastInput, lastOutput, pairing>>

UpdateWeights(learningRate) ==
    /\ Alive
    /\ call' = [op |-> "UpdateWeights", tensor |-> << >>, rate |-> learningRate]
    /\ ret' = Returned(<< >>)
    /\ UNCHANGED <<shape, lastInput, lastOutput, pairing>>

GetAllWeights ==
    /\ Alive
    /\ call' = [op |-> "GetAllWeights", tensor |-> << >>, rate |-> 0]
    /\ ret' = [Returned(<< >>) EXCEPT !.weights = << >>]
    /\ UNCHANGED <<shape, lastInput, lastOutput, pairing>>

ComputeL2Regularization(l2RegularizationFactor) ==
    /\ Alive
    /\ call' = [op |-> "ComputeL2Regularization", tensor |-> << >>,
                rate |-> l2RegularizationFactor]
    /\ ret' = [Returned(<< >>) EXCEPT !.scalar = 0]
    /\ UNCHANGED <<shape, lastInput, lastOutput, pairing>>

----------------------------------------------------------------------------

Init ==
    /\ originalChannels_ = 0
    /\ originalHeight_ = 0
    /\ originalWidth_ = 0
    /\ call = [op |-> "FlattenLayer", tensor |-> << >>, rate |-> 0]
    /\ ret = Returned(<< >>)
    /\ lastInput = << >>
    /\ lastOutput = << >>
    /\ pairing = "Idle"

Next ==
    \/ \E input \in ForwardInputs : Forward(input)
    \/ \E upstreamGradient \in Gradients, learningRate \in Rates :
          Backward(upstreamGradient, learningRate)
    \/ \E learningRate \in Rates : UpdateWeights(learningRate)
    \/ GetAllWeights
    \/ \E l2RegularizationFactor \in Rates : ComputeL2Regularization(l2RegularizationFactor)

Spec == Init /\ [][Next]_vars

----------------------------------------------------------------------------
(* Vocabulary of the properties, defined on tensors alone.                 *)

\* A (C,H,W) tensor with C, H, W > 0: every channel has the row count of the
\* first channel and every row the length of the first row.
IsRect(t) ==
    /\ Len(t) > 0
    /\ Len(t[1]) > 0
    /\ Len(t[1][1]) > 0
    /\ \A c \in 1..Len(t) :
          /\ Len(t[c]) = Len(t[1])
          /\ \A h \in 1..Len(t[c]) : Len(t[c][h]) = Len(t[1][1])

\* Zero channels, or a first channel with zero rows, or a first row with zero columns.
IsEmptyTensor(t) ==
    Len(t) = 0 \/ Len(t[1]) = 0 \/ Len(t[1][1]) = 0

\* (C,H,W) as read off the first channel and its first row.
Dims(t) == <<Len(t), Len(t[1]), Len(t[1][1])>>

Volume(t) == Dims(t)[1] * Dims(t)[2] * Dims(t)[3]

HasShape(t, d) ==
    /\ Len(t) = d[1]
    /\ \A c \in 1..Len(t) :
          /\ Len(t[c]) = d[2]
          /\ \A h \in 1..Len(t[c]) : Len(t[c][h]) = d[3]

RECURSIVE SeqSum(_)
SeqSum(s) == IF Len(s) = 0 THEN 0 ELSE Head(s) + SeqSum(Tail(s))

RowCount(channel) == SeqSum([h \in 1..Len(channel) |-> Len(channel[h])])

\* Number of values a tensor holds.
ElementCount(t) == SeqSum([c \in 1..Len(t) |-> RowCount(t[c])])

\* Number of values of t that come before row h of channel c.
ElementsBefore(t, c, h) ==
    SeqSum([x \in 1..(c - 1) |-> RowCount(t[x])])
        + SeqSum([y \in 1..(h - 1) |-> Len(t[c][y])])

\* Flat position c*H*W + h*W + w of the source, for 1-based c, h, w and position.
FlatPosition(d, c, h, w) == (c - 1) * d[2] * d[3] + (h - 1) * d[3] + w

Forwarded == pairing # "Idle"

----------------------------------------------------------------------------
(* The properties.                                                         *)

\* C1: for a rectangular input X, Backward on what Forward(X) returned, with
\* any learning rate, returns a tensor of the shape of X equal to X element
\* by element.
RoundTrip ==
    (/\ call.op = "Backward"
     /\ Forwarded
     /\ IsRect(lastInput)
     /\ call.tensor = lastOutput)
    => /\ ret.status = "ok"
       /\ HasShape(ret.tensor, Dims(lastInput))
       /\ \A c \in 1..Len(lastInput), h \in 1..Len(lastInput[1]), w \in 1..Len(lastInput[1][1]) :
             ret.tensor[c][h][w] = lastInput[c][h][w]

RoundTripReached ==
    /\ call.op = "Backward"
    /\ call.rate = 1
    /\ lastInput = ExampleTensor
    /\ call.tensor = lastOutput
    /\ ret.status = "ok"
    /\ ret.tensor = ExampleTensor

\* C2: Forward on a rectangular (C,H,W) input returns a tensor of shape
\* (1,1,C*H*W) whose element at flat position c*H*W + h*W + w is
\* input[c][h][w]; the 2x2x3 tensor holding 0..11 gives 0,1,...,11.
ForwardLayout ==
    (call.op = "Forward" /\ IsRect(call.tensor))
    => LET d == Dims(call.tensor)
       IN  /\ ret.status = "ok"
           /\ HasShape(ret.tensor, <<1, 1, d[1] * d[2] * d[3]>>)
           /\ \A c \in 1..d[1], h \in 1..d[2], w \in 1..d[3] :
                 ret.tensor[1][1][FlatPosition(d, c, h, w)] = call.tensor[c][h][w]
           /\ call.tensor = ExampleTensor
                 => ret.tensor = << << <<0, 1, 2, 3, 4, 5, 6, 7, 8, 9, 10, 11>> >> >>

ForwardLayoutReached ==
    /\ call.op = "Forward"
    /\ call.tensor = ExampleTensor
    /\ ret.status = "ok"
    /\ Len(ret.tensor[1][1]) = 12

\* C3 as stated: once a Backward has returned after the last Forward, every
\* further Backward before the next Forward raises the state error.
SecondBackwardFails ==
    [][(pairing \in {"Paired", "Repeated"} /\ call'.op = "Backward")
          => ret'.status = "runtime_error"]_vars

\* C3 as amended: a Backward that returns keeps the stored shape, so a further
\* Backward before the next Forward never raises the state error, and given
\* a gradient of C*H*W values it returns a (C,H,W) tensor again.
SecondBackwardReturns ==
    [][(pairing \in {"Paired", "Repeated"} /\ call'.op = "Backward")
          => /\ shape' = Dims(lastInput)
             /\ ret'.status # "runtime_error"
             /\ ElementCount(call'.tensor) = Volume(lastInput)
                   => /\ ret'.status = "ok"
                      /\ HasShape(ret'.tensor, Dims(lastInput))]_vars

SecondBackwardReached ==
    /\ call.op = "Backward"
    /\ pairing = "Repeated"
    /\ ret.status = "ok"
    /\ ret.tensor = lastInput

\* C4: Forward raises the input-validity error on every tensor that is not
\* a rectangular (C,H,W) tensor.
ForwardRejectsRagged ==
    (call.op = "Forward" /\ ~IsRect(call.tensor)) => ret.status = "invalid_argument"

\* C5: Forward on an empty tensor raises the input-validity error and
\* returns nothing, whatever was called before.
ForwardRejectsEmpty ==
    (call.op = "Forward" /\ IsEmptyTensor(call.tensor))
    => /\ ret.status = "invalid_argument"
       /\ ret.tensor = << >>

ForwardRejectsEmptyReached ==
    /\ call.op = "Forward"
    /\ call.tensor = << << << >>, <<1, 2>> >> >>
    /\ pairing = "Paired"
    /\ ret.status = "invalid_argument"

\* C6: while no Forward has returned on the layer, Backward raises the state
\* error for every gradient and learning rate.
BackwardNeedsForward ==
    (call.op = "Backward" /\ ~Forwarded) => ret.status = "runtime_error"

BackwardNeedsForwardReached ==
    /\ call.op = "Backward"
    /\ ~Forwarded
    /\ call.tensor = ExampleTensor
    /\ call.rate = 1
    /\ ret.status = "runtime_error"

\* C7: after a Forward on a (C,H,W) input has returned, Backward on a gradient
\* whose number of values is not C*H*W raises the shape-mismatch error and
\* returns nothing.
BackwardRejectsWrongSize ==
    (/\ call.op = "Backward"
     /\ Forwarded
     /\ ElementCount(call.tensor) # Volume(lastInput))
    => /\ ret.status = "invalid_argument"
       /\ ret.tensor = << >>

BackwardRejectsWrongSizeReached ==
    /\ call.op = "Backward"
    /\ Forwarded
    /\ IsRect(lastInput)
    /\ ElementCount(call.tensor) > Volume(lastInput)
    /\ ret.status = "invalid_argument"

\* C8: after a Forward on a (C,H,W) input has returned, Backward on a gradient
\* of any 3D shape holding C*H*W values returns a (C,H,W) tensor in which the
\* k-th value of the gradient, read channel by channel and row by row, is at
\* [c][h][w] with k = c*H*W + h*W + w; a (C,H,W) gradient comes back unchanged.
BackwardAnyShape ==
    (/\ call.op = "Backward"
     /\ Forwarded
     /\ ElementCount(call.tensor) = Volume(lastInput))
    => LET d == Dims(lastInput)
           g == call.tensor
       IN  /\ ret.status = "ok"
           /\ HasShape(ret.tensor, d)
           /\ \A c \in 1..d[1], h \in 1..d[2], w \in 1..d[3] :
                 \A x \in 1..Len(g) : \A y \in 1..Len(g[x]) : \A i \in 1..Len(g[x][y]) :
                    ElementsBefore(g, x, y) + i = FlatPosition(d, c, h, w)
                       => ret.tensor[c][h][w] = g[x][y][i]
           /\ HasShape(g, d) => ret.tensor = g

BackwardAnyShapeReached ==
    /\ call.op = "Backward"
    /\ call.tensor = << << <<1, 2, 3>>, <<4>> >>, << <<5, 6>>, <<7, 8>> >> >>
    /\ ret.status = "ok"
    /\ Dims(lastInput) = <<2, 2, 2>>
    /\ ret.tensor = << << <<1, 2>>, <<3, 4>> >>, << <<5, 6>>, <<7, 8>> >> >>

\* C9: UpdateWeights changes nothing (the stored shape, and how Backward ends
\* on any gradient, stay as they were), GetAllWeights returns the empty
\* sequence and ComputeL2Regularization returns 0, in every state and for
\* every argument.
NoParameters ==
    [][/\ call'.op \in {"UpdateWeights", "GetAllWeights", "ComputeL2Regularization"}
          => /\ shape' = shape
             /\ ret'.status = "ok"
       /\ call'.op = "UpdateWeights"
          => \A g \in Gradients : BackwardResult(g)' = BackwardResult(g)
       /\ call'.op = "GetAllWeights" => ret'.weights = << >>
       /\ call'.op = "ComputeL2Regularization" => ret'.scalar = 0]_vars

NoParametersReached ==
    /\ call.op = "UpdateWeights"
    /\ call.rate = 1
    /\ pairing = "ForwardCompleted"
    /\ shape = <<2, 2, 3>>

\* C10: the stored shape is that of the input of the most recent Forward that
\* returned (Forward calls that raise and all Backward calls leave it alone),
\* and every Backward that returns gives a tensor of that shape.
ShapeOfLastForward ==
    /\ (Alive /\ ~Forwarded) => shape = <<0, 0, 0>>
    /\ (Alive /\ Forwarded) => shape = Dims(lastInput)
    /\ (call.op = "Backward" /\ ret.status = "ok") => HasShape(ret.tensor, Dims(lastInput))

ShapeOfLastForwardReached ==
    /\ call.op = "Backward"
    /\ ret.status = "ok"
    /\ Dims(lastInput) = <<2, 1, 2>>
    /\ call.tensor \in RaggedTensors
    /\ HasShape(ret.tensor, <<2, 1, 2>>)

====
